---- MODULE Spec2Model ----
(***************************************************************************)
(* Token distributor contract (src/src/contract.rs): the persistent        *)
(* records of state.rs, the four execute handlers and their arithmetic.    *)
(* Uint128 is scaled to UintBits bits; every handler is one atomic step    *)
(* that leaves the storage as the handler's code leaves it when it         *)
(* returns (Ok or Err) or panics.                                          *)
(***************************************************************************)
EXTENDS Integers, Sequences, FiniteSets, TLC

\* ---------------------------------------------------------------- bounds
\* width of the unsigned integer type (Uint128 / u128, scaled down)
UintBits == 16
\* number of Receive (deposit) calls in one behaviour
MaxDeposits == 2

UintMax == 2^UintBits - 1

\* ------------------------------------------------------ program constants
\* contract.rs:156  amount.u128() * 50u128 / 1000u128
FeeNumerator == 50
FeeDenominator == 1000
\* contract.rs:162  send_amount / Uint128::from(2u128)
SplitDivisor == 2

\* ------------------------------------------------------------- addresses
\* strings for which deps.api.addr_validate succeeds
ValidAddrs == {"asset0001", "addr0000", "addr0002", "addr0003"}
\* a string addr_validate rejects
BadAddr == ""
\* message senders (MessageInfo.sender is an Addr the host has validated)
Senders == ValidAddrs
\* InstantiateMsg inputs
TokenChoices == {"asset0001"}
OwnerChoices == {"addr0000"}
\* recipient strings carried by a DepositMsg
RecipientStrings == {"addr0002", "addr0003", BadAddr}

VARIABLES
  CONTRACT_INFO,    \* Item<ContractInfo>: [token, owner]
  WITHDRAWABLE,     \* Map<Addr, Uint128>: function on the keys present
  FEE_COLLECTED,    \* Item<Uint128>
  overflow_checks,  \* build profile: native u128 overflow panics (TRUE) or wraps
  call,             \* the last ExecuteMsg and its sender
  response,         \* its result kind and Response.messages
  locals,           \* fee / send_amount / amount1 / amount2 computed by deposit
  deposited,        \* history: sum of the amounts of accepted deposits
  transferred,      \* history: sum of the amounts of emitted transfers
  fees_since,       \* history: sum of floor(A*50/1000) over accepted deposits
                    \*          since the last successful withdraw_fee
  ndeposits,        \* history: number of Receive calls made
  owed,             \* history: per address, the shares of the accepted
                    \*          deposits that named it minus the transfers
                    \*          emitted to it by withdraw and withdraw_all
  instantiate_msg   \* history: the InstantiateMsg the contract was built with

vars == <<CONTRACT_INFO, WITHDRAWABLE, FEE_COLLECTED, overflow_checks, call,
          response, locals, deposited, transferred, fees_since, ndeposits,
          owed, instantiate_msg>>

\* the storage handle passed to every handler
Storage == [CONTRACT_INFO |-> CONTRACT_INFO, WITHDRAWABLE |-> WITHDRAWABLE,
            FEE_COLLECTED |-> FEE_COLLECTED]

\* ------------------------------------------------------------ primitives
\* deps.api.addr_validate: Ok(Addr) with the same text, or Err
addr_validate(s) == IF s \in ValidAddrs THEN [ok |-> TRUE, addr |-> s]
                    ELSE [ok |-> FALSE, addr |-> s]

\* Map::load matched with Err => Uint128::zero()
load_or_zero(map, key) == IF key \in DOMAIN map THEN map[key] ELSE 0

\* Map::save
save(map, key, val) ==
  [k \in (DOMAIN map) \cup {key} |-> IF k = key THEN val ELSE map[k]]

\* the Binary payload of a Cw20ReceiveMsg and from_binary::<Cw20HookMsg>
DepositPayload(a1, a2) == [kind |-> "deposit", addr1 |-> a1, addr2 |-> a2]
OtherPayload == [kind |-> "other", addr1 |-> BadAddr, addr2 |-> BadAddr]
\* mutant: any payload is taken for a deposit instruction
from_binary_lenient(bin) == [ok |-> TRUE, addr1 |-> bin.addr1, addr2 |-> bin.addr2]

from_binary(bin) == IF bin.kind = "deposit"
                    THEN [ok |-> TRUE, addr1 |-> bin.addr1, addr2 |-> bin.addr2]
                    ELSE [ok |-> FALSE, addr1 |-> BadAddr, addr2 |-> BadAddr]

\* Cw20ExecuteMsg::Transfer wrapped in WasmMsg::Execute
Transfer(token, recipient, amount) ==
  [contract_addr |-> token, recipient |-> recipient, amount |-> amount]

\* ----------------------------------------------------- handler outcomes
NoLocals == [computed |-> FALSE, fee |-> 0, send_amount |-> 0,
             amount1 |-> 0, amount2 |-> 0]
Outcome(st, result, msgs, loc) ==
  [storage |-> st, result |-> result, messages |-> msgs, locals |-> loc]

\* result kinds
OkResult == "Ok"
Unauthorized == "Unauthorized"
InvalidToken == "Std: Invalid token"
InvalidZeroAmount == "Std: Invalid zero amount"
InsufficientAmount == "Std: Insufficient amount"
InvalidAddress == "Std: invalid address"
Panic == "panic"
\* the panic of a Uint128 subtraction that would underflow
PanicSub == "panic: attempt to subtract with overflow"

\* --------------------------------------------------- deposit arithmetic
\* native u128 product amount.u128() * 50u128: panics under overflow checks,
\* wraps modulo 2^width without them
mul_u128(a, b) ==
  IF a * b <= UintMax THEN [panic |-> FALSE, val |-> a * b]
  ELSE IF overflow_checks THEN [panic |-> TRUE, val |-> 0]
  ELSE [panic |-> FALSE, val |-> (a * b) % (UintMax + 1)]

fee(amount) ==
  LET prod == mul_u128(amount, FeeNumerator)
  IN [panic |-> prod.panic, val |-> prod.val \div FeeDenominator]

send_amount(amount, fee_v) == amount - fee_v

\* mutant: the first share rounded up instead of down
amount1_ceil(send) == (send + SplitDivisor - 1) \div SplitDivisor

amount1(send) == send \div SplitDivisor

\* mutant: the second share computed as a second truncated half
amount2_half(send, a1) == send \div SplitDivisor

amount2(send, a1) == send - a1

\* mutant: the token check never fires
invalid_token_never(token_contract, contract_info) == FALSE

\* the token check of deposit
invalid_token(token_contract, contract_info) ==
  token_contract # contract_info.token

\* mutant: the shares are also sent out as transfers
deposit_forwarding(storage, info, cw20_msg) ==
  LET token_contract == info.sender
      amount == cw20_msg.amount
      contract_info == storage.CONTRACT_INFO
      dec == from_binary(cw20_msg.msg)
  IN
  IF ~dec.ok THEN Outcome(storage, Unauthorized, <<>>, NoLocals)
  ELSE IF invalid_token(token_contract, contract_info)
  THEN Outcome(storage, InvalidToken, <<>>, NoLocals)
  ELSE
  LET f == fee(amount) IN
  IF f.panic THEN Outcome(storage, Panic, <<>>, NoLocals)
  ELSE IF storage.FEE_COLLECTED + f.val > UintMax
  THEN Outcome(storage, Panic, <<>>, NoLocals)
  ELSE
  LET st1 == [storage EXCEPT !.FEE_COLLECTED = @ + f.val] IN
  IF f.val > amount THEN Outcome(st1, PanicSub, <<>>, NoLocals)
  ELSE
  LET send == send_amount(amount, f.val)
      a1 == amount1(send)
      a2 == amount2(send, a1)
      loc == [computed |-> TRUE, fee |-> f.val, send_amount |-> send,
              amount1 |-> a1, amount2 |-> a2]
      v1 == addr_validate(dec.addr1)
      v2 == addr_validate(dec.addr2)
  IN
  IF ~v1.ok THEN Outcome(st1, InvalidAddress, <<>>, loc)
  ELSE
  LET withdrawable1 == load_or_zero(st1.WITHDRAWABLE, v1.addr) IN
  IF ~v2.ok THEN Outcome(st1, InvalidAddress, <<>>, loc)
  ELSE
  LET withdrawable2 == load_or_zero(st1.WITHDRAWABLE, v2.addr) IN
  IF withdrawable1 + a1 > UintMax THEN Outcome(st1, Panic, <<>>, loc)
  ELSE
  LET st2 == [st1 EXCEPT !.WITHDRAWABLE = save(@, v1.addr, withdrawable1 + a1)]
  IN
  IF withdrawable2 + a2 > UintMax THEN Outcome(st2, Panic, <<>>, loc)
  ELSE
  LET st3 == [st2 EXCEPT !.WITHDRAWABLE = save(@, v2.addr, withdrawable2 + a2)]
  IN Outcome(st3, OkResult,
             <<Transfer(contract_info.token, v1.addr, a1),
               Transfer(contract_info.token, v2.addr, a2)>>, loc)

\* mutant: the shares replace the balances instead of being added to them
deposit_overwrite(storage, info, cw20_msg) ==
  LET token_contract == info.sender
      amount == cw20_msg.amount
      contract_info == storage.CONTRACT_INFO
      dec == from_binary(cw20_msg.msg)
  IN
  IF ~dec.ok THEN Outcome(storage, Unauthorized, <<>>, NoLocals)
  ELSE IF invalid_token(token_contract, contract_info)
  THEN Outcome(storage, InvalidToken, <<>>, NoLocals)
  ELSE
  LET f == fee(amount) IN
  IF f.panic THEN Outcome(storage, Panic, <<>>, NoLocals)
  ELSE IF storage.FEE_COLLECTED + f.val > UintMax
  THEN Outcome(storage, Panic, <<>>, NoLocals)
  ELSE
  LET st1 == [storage EXCEPT !.FEE_COLLECTED = @ + f.val] IN
  IF f.val > amount THEN Outcome(st1, PanicSub, <<>>, NoLocals)
  ELSE
  LET send == send_amount(amount, f.val)
      a1 == amount1(send)
      a2 == amount2(send, a1)
      loc == [computed |-> TRUE, fee |-> f.val, send_amount |-> send,
              amount1 |-> a1, amount2 |-> a2]
      v1 == addr_validate(dec.addr1)
      v2 == addr_validate(dec.addr2)
  IN
  IF ~v1.ok THEN Outcome(st1, InvalidAddress, <<>>, loc)
  ELSE
  LET withdrawable1 == load_or_zero(st1.WITHDRAWABLE, v1.addr) IN
  IF ~v2.ok THEN Outcome(st1, InvalidAddress, <<>>, loc)
  ELSE
  LET withdrawable2 == load_or_zero(st1.WITHDRAWABLE, v2.addr) IN
  IF withdrawable1 + a1 > UintMax THEN Outcome(st1, Panic, <<>>, loc)
  ELSE
  LET st2 == [st1 EXCEPT !.WITHDRAWABLE = save(@, v1.addr, a1)]
  IN
  IF withdrawable2 + a2 > UintMax THEN Outcome(st2, Panic, <<>>, loc)
  ELSE
  LET st3 == [st2 EXCEPT !.WITHDRAWABLE = save(@, v2.addr, a2)]
  IN Outcome(st3, OkResult, <<>>, loc)

deposit(storage, info, cw20_msg) ==
  LET token_contract == info.sender
      amount == cw20_msg.amount
      contract_info == storage.CONTRACT_INFO
      dec == from_binary(cw20_msg.msg)
  IN
  IF ~dec.ok THEN Outcome(storage, Unauthorized, <<>>, NoLocals)
  ELSE IF invalid_token(token_contract, contract_info)
  THEN Outcome(storage, InvalidToken, <<>>, NoLocals)
  ELSE
  LET f == fee(amount) IN
  IF f.panic THEN Outcome(storage, Panic, <<>>, NoLocals)
  ELSE IF storage.FEE_COLLECTED + f.val > UintMax
  THEN Outcome(storage, Panic, <<>>, NoLocals)
  ELSE
  LET st1 == [storage EXCEPT !.FEE_COLLECTED = @ + f.val] IN
  IF f.val > amount THEN Outcome(st1, PanicSub, <<>>, NoLocals)
  ELSE
  LET send == send_amount(amount, f.val)
      a1 == amount1(send)
      a2 == amount2(send, a1)
      loc == [computed |-> TRUE, fee |-> f.val, send_amount |-> send,
              amount1 |-> a1, amount2 |-> a2]
      v1 == addr_validate(dec.addr1)
      v2 == addr_validate(dec.addr2)
  IN
  IF ~v1.ok THEN Outcome(st1, InvalidAddress, <<>>, loc)
  ELSE
  LET withdrawable1 == load_or_zero(st1.WITHDRAWABLE, v1.addr) IN
  IF ~v2.ok THEN Outcome(st1, InvalidAddress, <<>>, loc)
  ELSE
  LET withdrawable2 == load_or_zero(st1.WITHDRAWABLE, v2.addr) IN
  IF withdrawable1 + a1 > UintMax THEN Outcome(st1, Panic, <<>>, loc)
  ELSE
  LET st2 == [st1 EXCEPT !.WITHDRAWABLE = save(@, v1.addr, withdrawable1 + a1)]
  IN
  IF withdrawable2 + a2 > UintMax THEN Outcome(st2, Panic, <<>>, loc)
  ELSE
  LET st3 == [st2 EXCEPT !.WITHDRAWABLE = save(@, v2.addr, withdrawable2 + a2)]
  IN Outcome(st3, OkResult, <<>>, loc)

\* ------------------------------------------------------------ withdrawals
\* mutant: the balance is saved without the debit
_withdraw_no_debit(storage, info, amount) ==
  LET token == storage.CONTRACT_INFO.token IN
  IF amount = 0 THEN Outcome(storage, InvalidZeroAmount, <<>>, NoLocals)
  ELSE
  LET withdrawable == load_or_zero(storage.WITHDRAWABLE, info.sender) IN
  IF amount > withdrawable
  THEN Outcome(storage, InsufficientAmount, <<>>, NoLocals)
  ELSE
  LET st1 == [storage EXCEPT
                !.WITHDRAWABLE = save(@, info.sender, withdrawable)]
  IN Outcome(st1, OkResult,
             <<Transfer(token, info.sender, amount)>>, NoLocals)

\* mutant: the balance check rejects the exact balance
_withdraw_off_by_one(storage, info, amount) ==
  LET token == storage.CONTRACT_INFO.token IN
  IF amount = 0 THEN Outcome(storage, InvalidZeroAmount, <<>>, NoLocals)
  ELSE
  LET withdrawable == load_or_zero(storage.WITHDRAWABLE, info.sender) IN
  IF amount >= withdrawable
  THEN Outcome(storage, InsufficientAmount, <<>>, NoLocals)
  ELSE
  LET st1 == [storage EXCEPT
                !.WITHDRAWABLE = save(@, info.sender, withdrawable - amount)]
  IN Outcome(st1, OkResult,
             <<Transfer(token, info.sender, amount)>>, NoLocals)

\* mutant: the zero-amount check is missing
_withdraw_no_zero_check(storage, info, amount) ==
  LET token == storage.CONTRACT_INFO.token IN
  LET withdrawable == load_or_zero(storage.WITHDRAWABLE, info.sender) IN
  IF amount > withdrawable
  THEN Outcome(storage, InsufficientAmount, <<>>, NoLocals)
  ELSE
  LET st1 == [storage EXCEPT
                !.WITHDRAWABLE = save(@, info.sender, withdrawable - amount)]
  IN Outcome(st1, OkResult,
             <<Transfer(token, info.sender, amount)>>, NoLocals)

\* mutant: the balance check is missing, so the Uint128 subtraction panics
_withdraw_unchecked(storage, info, amount) ==
  LET token == storage.CONTRACT_INFO.token IN
  IF amount = 0 THEN Outcome(storage, InvalidZeroAmount, <<>>, NoLocals)
  ELSE
  LET withdrawable == load_or_zero(storage.WITHDRAWABLE, info.sender) IN
  IF amount > withdrawable THEN Outcome(storage, PanicSub, <<>>, NoLocals)
  ELSE
  LET st1 == [storage EXCEPT
                !.WITHDRAWABLE = save(@, info.sender, withdrawable - amount)]
  IN Outcome(st1, OkResult,
             <<Transfer(token, info.sender, amount)>>, NoLocals)

_withdraw(storage, info, amount) ==
  LET token == storage.CONTRACT_INFO.token IN
  IF amount = 0 THEN Outcome(storage, InvalidZeroAmount, <<>>, NoLocals)
  ELSE
  LET withdrawable == load_or_zero(storage.WITHDRAWABLE, info.sender) IN
  IF amount > withdrawable
  THEN Outcome(storage, InsufficientAmount, <<>>, NoLocals)
  ELSE
  LET st1 == [storage EXCEPT
                !.WITHDRAWABLE = save(@, info.sender, withdrawable - amount)]
      recipient == addr_validate(info.sender)
  IN
  IF ~recipient.ok THEN Outcome(st1, InvalidAddress, <<>>, NoLocals)
  ELSE Outcome(st1, OkResult,
               <<Transfer(token, recipient.addr, amount)>>, NoLocals)

withdraw(storage, info, msg) == _withdraw(storage, info, msg.amount)

\* mutant: a zero balance is answered with an empty success
withdraw_all_zero_ok(storage, info) ==
  LET amount == load_or_zero(storage.WITHDRAWABLE, info.sender)
  IN IF amount = 0 THEN Outcome(storage, OkResult, <<>>, NoLocals)
     ELSE _withdraw(storage, info, amount)

withdraw_all(storage, info) ==
  LET amount == load_or_zero(storage.WITHDRAWABLE, info.sender)
  IN _withdraw(storage, info, amount)

\* mutant: the owner check is missing
withdraw_fee_noauth(storage, info) ==
  LET token == storage.CONTRACT_INFO.token
      fee_v == storage.FEE_COLLECTED
      st1 == [storage EXCEPT !.FEE_COLLECTED = 0]
  IN Outcome(st1, OkResult, <<Transfer(token, info.sender, fee_v)>>, NoLocals)

\* mutant: the fee pool is not reset
withdraw_fee_keep(storage, info) ==
  LET contract_info == storage.CONTRACT_INFO
      token == contract_info.token
  IN
  IF contract_info.owner # info.sender
  THEN Outcome(storage, Unauthorized, <<>>, NoLocals)
  ELSE Outcome(storage, OkResult,
               <<Transfer(token, info.sender, storage.FEE_COLLECTED)>>, NoLocals)

withdraw_fee(storage, info) ==
  LET contract_info == storage.CONTRACT_INFO
      token == contract_info.token
  IN
  IF contract_info.owner # info.sender
  THEN Outcome(storage, Unauthorized, <<>>, NoLocals)
  ELSE
  LET fee_v == storage.FEE_COLLECTED
      st1 == [storage EXCEPT !.FEE_COLLECTED = 0]
  IN Outcome(st1, OkResult, <<Transfer(token, info.sender, fee_v)>>, NoLocals)

\* ---------------------------------------------------------------- queries
\* QueryMsg as a record: op, and the addr of WithdrawableMsg
QueryOwnerOp == "Owner"
QueryWithdrawableOp == "Withdrawable"
QueryMsg(op, addr) == [op |-> op, addr |-> addr]

\* StdResult of a query: ok with the value, or the validation error
QueryOk(val) == [result |-> OkResult, data |-> val]
QueryErr(kind) == [result |-> kind, data |-> 0]

\* mutant: the stored token is returned for the owner
get_owner_token(storage) == QueryOk(storage.CONTRACT_INFO.token)

get_owner(storage) == QueryOk(storage.CONTRACT_INFO.owner)

\* mutant: the load error of a missing entry is propagated
withdrawable_strict(storage, msg) ==
  LET v == addr_validate(msg.addr) IN
  IF ~v.ok THEN QueryErr(InvalidAddress)
  ELSE IF v.addr \notin DOMAIN storage.WITHDRAWABLE THEN QueryErr("Std: not found")
  ELSE QueryOk(storage.WITHDRAWABLE[v.addr])

withdrawable(storage, msg) ==
  LET v == addr_validate(msg.addr) IN
  IF ~v.ok THEN QueryErr(InvalidAddress)
  ELSE QueryOk(load_or_zero(storage.WITHDRAWABLE, v.addr))

query(storage, msg) ==
  CASE msg.op = QueryOwnerOp -> get_owner(storage)
    [] msg.op = QueryWithdrawableOp -> withdrawable(storage, msg)

\* --------------------------------------------------------- entry points
\* ExecuteMsg as a record: op, and the fields of the variant
WithdrawOp == "Withdraw"
WithdrawAllOp == "WithdrawAll"
WithdrawFeeOp == "WithdrawFee"
ReceiveOp == "Receive"

ExecuteMsg(op, amount, payload) == [op |-> op, amount |-> amount, msg |-> payload]

execute(storage, info, msg) ==
  CASE msg.op = WithdrawOp -> withdraw(storage, info, msg)
    [] msg.op = WithdrawAllOp -> withdraw_all(storage, info)
    [] msg.op = WithdrawFeeOp -> withdraw_fee(storage, info)
    [] msg.op = ReceiveOp -> deposit(storage, info, msg)

\* mutant: token and owner are stored in each other's place
instantiate_swapped(msg) ==
  [CONTRACT_INFO |-> [token |-> addr_validate(msg.owner).addr,
                      owner |-> addr_validate(msg.token).addr],
   WITHDRAWABLE |-> <<>>,
   FEE_COLLECTED |-> 0]

\* instantiate: the storage after construction
instantiate(msg) ==
  [CONTRACT_INFO |-> [token |-> addr_validate(msg.token).addr,
                      owner |-> addr_validate(msg.owner).addr],
   WITHDRAWABLE |-> <<>>,
   FEE_COLLECTED |-> 0]

\* ------------------------------------------------------------- the model
RECURSIVE SumSeq(_)
SumSeq(msgs) == IF msgs = <<>> THEN 0
                ELSE Head(msgs).amount + SumSeq(Tail(msgs))

\* the amounts of the transfers of msgs whose recipient is a
RECURSIVE SumTo(_, _)
SumTo(msgs, a) ==
  IF msgs = <<>> THEN 0
  ELSE (IF Head(msgs).recipient = a THEN Head(msgs).amount ELSE 0)
       + SumTo(Tail(msgs), a)

NoCall == [sender |-> BadAddr, msg |-> ExecuteMsg("none", 0, OtherPayload)]
NoResponse == [result |-> "none", messages |-> <<>>]

\* the mathematically exact fee of the claims, floor(A * 50 / 1000)
ExactFee(A) == (A * FeeNumerator) \div FeeDenominator

\* one call of the execute entry point by `sender` with message `msg`
Execute(sender, msg) ==
  \E out \in {execute(Storage, [sender |-> sender], msg)} :
    LET ok == out.result = OkResult IN
    /\ CONTRACT_INFO' = out.storage.CONTRACT_INFO
    /\ WITHDRAWABLE' = out.storage.WITHDRAWABLE
    /\ FEE_COLLECTED' = out.storage.FEE_COLLECTED
    /\ call' = [sender |-> sender, msg |-> msg]
    /\ response' = [result |-> out.result, messages |-> out.messages]
    /\ locals' = out.locals
    /\ deposited' = IF ok /\ msg.op = ReceiveOp THEN deposited + msg.amount
                    ELSE deposited
    /\ transferred' = transferred + SumSeq(out.messages)
    /\ fees_since' = IF ok /\ msg.op = ReceiveOp
                     THEN fees_since + ExactFee(msg.amount)
                     ELSE IF ok /\ msg.op = WithdrawFeeOp THEN 0
                     ELSE fees_since
    /\ ndeposits' = IF msg.op = ReceiveOp THEN ndeposits + 1 ELSE ndeposits
    /\ owed' = IF ok /\ msg.op = ReceiveOp
               THEN [a \in ValidAddrs |->
                       owed[a]
                       + (IF msg.msg.addr1 = a THEN out.locals.amount1 ELSE 0)
                       + (IF msg.msg.addr2 = a THEN out.locals.amount2 ELSE 0)]
               ELSE IF msg.op \in {WithdrawOp, WithdrawAllOp}
               THEN [a \in ValidAddrs |-> owed[a] - SumTo(out.messages, a)]
               ELSE owed
    /\ UNCHANGED <<overflow_checks, instantiate_msg>>

\* inputs
DepositAmounts == {100, 1000}
DepositSenders == {"asset0001", "addr0000"}
WithdrawAmounts == {0, 300, UintMax}
\* WithdrawableMsg.addr strings; a query has no sender
QueryAddrs == ValidAddrs \cup {BadAddr}
NoSender == BadAddr
\* two distinct recipients, one recipient named twice, and a malformed
\* string in either place; the other pairs are these with the names swapped
RecipientPairs ==
  {p \in RecipientStrings \X RecipientStrings :
     \/ p[1] = "addr0002"
     \/ p = <<BadAddr, "addr0003">>}
Payloads == {DepositPayload(p[1], p[2]) : p \in RecipientPairs}
            \cup {OtherPayload}

Init ==
  /\ \E t \in TokenChoices, o \in OwnerChoices :
       LET st == instantiate([token |-> t, owner |-> o]) IN
       /\ instantiate_msg = [token |-> t, owner |-> o]
       /\ CONTRACT_INFO = st.CONTRACT_INFO
       /\ WITHDRAWABLE = st.WITHDRAWABLE
       /\ FEE_COLLECTED = st.FEE_COLLECTED
  \* no product amount * 50 overflows for the amounts of DepositAmounts, so
  \* both build profiles behave alike here; SpecDeposit covers both
  /\ overflow_checks = TRUE
  /\ call = NoCall
  /\ response = NoResponse
  /\ locals = NoLocals
  /\ deposited = 0
  /\ transferred = 0
  /\ fees_since = 0
  /\ ndeposits = 0
  /\ owed = [a \in ValidAddrs |-> 0]

Deposit ==
  /\ ndeposits < MaxDeposits
  /\ \E sender \in DepositSenders, amount \in DepositAmounts, payload \in Payloads :
       Execute(sender, ExecuteMsg(ReceiveOp, amount, payload))

Withdraw ==
  \E sender \in Senders :
    \E amount \in WithdrawAmounts \cup {load_or_zero(WITHDRAWABLE, sender)} :
      Execute(sender, ExecuteMsg(WithdrawOp, amount, OtherPayload))

WithdrawAll ==
  \E sender \in Senders :
    Execute(sender, ExecuteMsg(WithdrawAllOp, 0, OtherPayload))

WithdrawFee ==
  \E sender \in Senders :
    Execute(sender, ExecuteMsg(WithdrawFeeOp, 0, OtherPayload))

\* one call of the query entry point: deps is read-only
Query ==
  \E msg \in {QueryMsg(QueryOwnerOp, BadAddr)}
              \cup {QueryMsg(QueryWithdrawableOp, a) : a \in QueryAddrs} :
    \E out \in {query(Storage, msg)} :
      /\ call' = [sender |-> NoSender, msg |-> msg]
      /\ response' = [result |-> out.result, messages |-> <<>>,
                      data |-> out.data]
      /\ locals' = NoLocals
      /\ UNCHANGED <<CONTRACT_INFO, WITHDRAWABLE, FEE_COLLECTED,
                     overflow_checks, deposited, transferred, fees_since,
                     ndeposits, owed, instantiate_msg>>

Next == Deposit \/ Withdraw \/ WithdrawAll \/ WithdrawFee \/ Query

Spec == Init /\ [][Next]_vars

\* -------------------------------------------- the deposit arithmetic alone
\* One Receive call on the freshly instantiated contract, from the configured
\* token, with a well-formed payload naming two valid addresses, for every
\* amount of the integer type and both build profiles.
PendingResult == "pending"

InitDeposit ==
  /\ \E t \in TokenChoices, o \in OwnerChoices :
       LET st == instantiate([token |-> t, owner |-> o]) IN
       /\ instantiate_msg = [token |-> t, owner |-> o]
       /\ CONTRACT_INFO = st.CONTRACT_INFO
       /\ WITHDRAWABLE = st.WITHDRAWABLE
       /\ FEE_COLLECTED = st.FEE_COLLECTED
       /\ \E A \in 0..UintMax :
            call = [sender |-> t,
                    msg |-> ExecuteMsg(ReceiveOp, A,
                                       DepositPayload("addr0002", "addr0003"))]
  /\ overflow_checks \in BOOLEAN
  /\ response = [result |-> PendingResult, messages |-> <<>>]
  /\ locals = NoLocals
  /\ deposited = 0
  /\ transferred = 0
  /\ fees_since = 0
  /\ ndeposits = 0
  /\ owed = [a \in ValidAddrs |-> 0]

DepositPending ==
  /\ response.result = PendingResult
  /\ Execute(call.sender, call.msg)

NextDeposit == DepositPending

SpecDeposit == InitDeposit /\ [][NextDeposit]_vars

\* ------------------------------------------------------------ properties
RECURSIVE SumOver(_, _)
SumOver(map, keys) ==
  IF keys = {} THEN 0
  ELSE LET k == CHOOSE x \in keys : TRUE
       IN map[k] + SumOver(map, keys \ {k})

SumBalances(map) == SumOver(map, DOMAIN map)

IsDeposit(c) == c.msg.op = ReceiveOp
Amount == call.msg.amount

\* C1: conservation of funds: in every reachable state the sum of the amounts
\* of all accepted deposits equals FeePool + the sum of all withdrawable
\* balances + the sum of the amounts of all transfers emitted so far.
C1_Conservation ==
  deposited = FEE_COLLECTED + SumBalances(WITHDRAWABLE) + transferred

\* C2: an accepted deposit credits addr1 by share1 and addr2 by share2 (a
\* missing balance counting as zero), an address named twice by
\* share1 + share2, and changes no other balance.
C2_DepositCredits ==
  [][(IsDeposit(call') /\ response'.result = OkResult) =>
       \A a \in ValidAddrs :
         load_or_zero(WITHDRAWABLE', a) =
           load_or_zero(WITHDRAWABLE, a)
           + (IF a = call'.msg.msg.addr1 THEN locals'.amount1 ELSE 0)
           + (IF a = call'.msg.msg.addr2 THEN locals'.amount2 ELSE 0)]_vars

\* C3: for every deposit amount A the fee and the two shares computed by
\* deposit satisfy fee + share1 + share2 = A, and all three are 0 when A = 0.
C3_FeePlusSharesIsAmount ==
  locals.computed =>
    /\ locals.fee + locals.amount1 + locals.amount2 = Amount
    /\ (Amount = 0 =>
          locals.fee = 0 /\ locals.amount1 = 0 /\ locals.amount2 = 0)

C3_Witness ==
  /\ response.result = OkResult
  /\ locals.computed
  /\ locals.fee > 0
  /\ locals.amount2 > locals.amount1

\* C4: for every amount A of the integer type a deposit from the configured
\* token with a well-formed payload and valid addresses is accepted and adds
\* exactly floor((A * 50) / 1000) to the fee pool.
C4_DepositAcceptedWithExactFee ==
  (IsDeposit(call) /\ response.result # PendingResult) =>
    /\ response.result = OkResult
    /\ FEE_COLLECTED = ExactFee(Amount)

\* C5: share1 = floor((A - fee) / 2) and share2 = (A - fee) - share1, so
\* share2 >= share1 and share1 + share2 = A - fee; A = 100 gives 5, 47, 48
\* and A = 1000 gives 50, 475, 475.
C5_ShareSplit ==
  locals.computed =>
    /\ locals.amount1 = (Amount - locals.fee) \div 2
    /\ locals.amount2 = (Amount - locals.fee) - locals.amount1
    /\ locals.amount2 >= locals.amount1
    /\ locals.amount1 + locals.amount2 = Amount - locals.fee
    /\ (Amount = 100 =>
          locals.fee = 5 /\ locals.amount1 = 47 /\ locals.amount2 = 48)
    /\ (Amount = 1000 =>
          locals.fee = 50 /\ locals.amount1 = 475 /\ locals.amount2 = 475)

C5_Witness ==
  /\ response.result = OkResult
  /\ Amount = 100
  /\ locals.amount1 = 47
  /\ locals.amount2 = 48
  /\ load_or_zero(WITHDRAWABLE, "addr0002") = 47
  /\ load_or_zero(WITHDRAWABLE, "addr0003") = 48

C7_RejectedDepositNoEffect ==
  [][(/\ IsDeposit(call')
      /\ response'.result \in {Unauthorized, InvalidToken, InvalidAddress}) =>
       /\ FEE_COLLECTED' = FEE_COLLECTED
       /\ WITHDRAWABLE' = WITHDRAWABLE]_vars

\* C8: in every reachable state the fee pool equals the sum of the fees
\* floor(A*50/1000) of the deposits accepted since the last successful
\* withdraw_fee (or since instantiation), and is never negative.
C8_FeePoolIsSumOfFees ==
  /\ FEE_COLLECTED = fees_since
  /\ FEE_COLLECTED >= 0

\* C9: withdraw_fee by a caller other than the owner is rejected with the
\* Unauthorized error, emits no transfer, and leaves the fee pool and all
\* balances unchanged.
C9_NonOwnerWithdrawFeeRejected ==
  [][(call'.msg.op = WithdrawFeeOp /\ call'.sender # CONTRACT_INFO.owner) =>
       /\ response'.result = Unauthorized
       /\ response'.messages = <<>>
       /\ FEE_COLLECTED' = FEE_COLLECTED
       /\ WITHDRAWABLE' = WITHDRAWABLE]_vars

C9_Witness ==
  /\ call.msg.op = WithdrawFeeOp
  /\ call.sender # CONTRACT_INFO.owner
  /\ response.result = Unauthorized
  /\ FEE_COLLECTED > 0

\* C10: withdraw_fee by the owner always succeeds, sets the fee pool to zero
\* and emits exactly one transfer, to the token contract, of the whole prior
\* fee pool with the owner as recipient; with an empty pool it still succeeds
\* and the transfer is of amount zero.
C10_OwnerWithdrawFee ==
  [][(call'.msg.op = WithdrawFeeOp /\ call'.sender = CONTRACT_INFO.owner) =>
       /\ response'.result = OkResult
       /\ FEE_COLLECTED' = 0
       /\ response'.messages =
            <<Transfer(CONTRACT_INFO.token, CONTRACT_INFO.owner, FEE_COLLECTED)>>
       /\ (FEE_COLLECTED = 0 => response'.messages[1].amount = 0)]_vars

C10_Witness ==
  /\ call.msg.op = WithdrawFeeOp
  /\ call.sender = CONTRACT_INFO.owner
  /\ response.result = OkResult
  /\ Len(response.messages) = 1
  /\ response.messages[1].amount = 50
  /\ response.messages[1].recipient = CONTRACT_INFO.owner
  /\ FEE_COLLECTED = 0

\* the caller's balance before and after a step, and the unchanged storage
Balance(a) == load_or_zero(WITHDRAWABLE, a)
StorageUnchanged ==
  /\ CONTRACT_INFO' = CONTRACT_INFO
  /\ WITHDRAWABLE' = WITHDRAWABLE
  /\ FEE_COLLECTED' = FEE_COLLECTED

\* C11: withdraw(amount) succeeds if and only if 0 < amount <= the caller's
\* balance; on success the balance is reduced by exactly amount and exactly
\* one transfer is emitted, to the token contract, of amount to the caller.
C11_WithdrawIffCovered ==
  [][call'.msg.op = WithdrawOp =>
       LET c == call'.sender
           a == call'.msg.amount
       IN /\ (response'.result = OkResult) <=> (0 < a /\ a <= Balance(c))
          /\ response'.result = OkResult =>
               /\ load_or_zero(WITHDRAWABLE', c) = Balance(c) - a
               /\ response'.messages =
                    <<Transfer(CONTRACT_INFO.token, c, a)>>]_vars

C11_Witness ==
  /\ call.msg.op = WithdrawOp
  /\ call.sender = "addr0002"
  /\ call.msg.amount = 300
  /\ response.result = OkResult
  /\ Balance("addr0002") = 175
  /\ response.messages = <<Transfer("asset0001", "addr0002", 300)>>

\* C12: withdraw of more than the caller's balance (absent = zero) is
\* rejected with the insufficient-balance error and changes no state;
\* withdraw of exactly the full positive balance succeeds and leaves zero.
C12_WithdrawBeyondBalance ==
  [][call'.msg.op = WithdrawOp =>
       LET c == call'.sender
           a == call'.msg.amount
       IN /\ a > Balance(c) =>
               /\ response'.result = InsufficientAmount
               /\ response'.messages = <<>>
               /\ StorageUnchanged
          /\ (a = Balance(c) /\ a > 0) =>
               /\ response'.result = OkResult
               /\ load_or_zero(WITHDRAWABLE', c) = 0]_vars

C12_Witness ==
  /\ call.msg.op = WithdrawOp
  /\ call.msg.amount = 475
  /\ response.result = OkResult
  /\ call.sender \in DOMAIN WITHDRAWABLE
  /\ WITHDRAWABLE[call.sender] = 0

\* C13: withdraw(0) is rejected with the zero-amount error whatever the
\* caller's balance (zero or absent included), emits no transfer and changes
\* no state.
C13_WithdrawZeroRejected ==
  [][(call'.msg.op = WithdrawOp /\ call'.msg.amount = 0) =>
       /\ response'.result = InvalidZeroAmount
       /\ response'.messages = <<>>
       /\ StorageUnchanged]_vars

C13_Witness ==
  /\ call.msg.op = WithdrawOp
  /\ call.msg.amount = 0
  /\ response.result = InvalidZeroAmount
  /\ Balance(call.sender) > 0

\* C14: withdrawAll by a caller with balance b > 0 succeeds, leaves the
\* balance at zero and emits exactly one transfer of b to the caller; with a
\* zero or absent balance it is rejected with the zero-amount error and
\* changes nothing.
C14_WithdrawAll ==
  [][call'.msg.op = WithdrawAllOp =>
       LET c == call'.sender
           b == Balance(c)
       IN /\ b > 0 =>
               /\ response'.result = OkResult
               /\ load_or_zero(WITHDRAWABLE', c) = 0
               /\ response'.messages =
                    <<Transfer(CONTRACT_INFO.token, c, b)>>
          /\ b = 0 =>
               /\ response'.result = InvalidZeroAmount
               /\ response'.messages = <<>>
               /\ StorageUnchanged]_vars

C14_Witness ==
  /\ call.msg.op = WithdrawAllOp
  /\ call.sender = "addr0002"
  /\ response.result = OkResult
  /\ response.messages = <<Transfer("asset0001", "addr0002", 475)>>
  /\ Balance("addr0002") = 0

\* C15: the configuration is immutable: after any sequence of calls the
\* stored token and owner are those given at instantiation, and getOwner
\* returns that owner.
C15_ConfigImmutable ==
  /\ CONTRACT_INFO = [token |-> instantiate_msg.token,
                      owner |-> instantiate_msg.owner]
  /\ get_owner(Storage) = QueryOk(instantiate_msg.owner)
  /\ call.msg.op = QueryOwnerOp =>
       response.result = OkResult /\ response.data = instantiate_msg.owner

C15_Witness ==
  /\ call.msg.op = QueryOwnerOp
  /\ response.data = "addr0000"
  /\ deposited > 0
  /\ transferred > 0

\* C16: a deposit sent by the configured token whose payload does not decode
\* as a deposit instruction is rejected with the Unauthorized error kind and
\* changes no state.
C16_UndecodablePayloadUnauthorized ==
  [][(/\ IsDeposit(call')
      /\ call'.sender = CONTRACT_INFO.token
      /\ call'.msg.msg.kind # "deposit") =>
       /\ response'.result = Unauthorized
       /\ response'.messages = <<>>
       /\ StorageUnchanged]_vars

C16_Witness ==
  /\ IsDeposit(call)
  /\ call.sender = CONTRACT_INFO.token
  /\ call.msg.msg = OtherPayload
  /\ response.result = Unauthorized
  /\ FEE_COLLECTED > 0

\* C17: the withdrawable query is a pure read: it returns the address's
\* current balance, zero when there is no entry, and modifies no state, so
\* the value it returned is still the balance a repeated call returns.
C17_WithdrawableQueryPure ==
  [][call'.msg.op = QueryWithdrawableOp =>
       LET a == call'.msg.addr IN
       /\ StorageUnchanged
       /\ a \in ValidAddrs =>
            /\ response'.result = OkResult
            /\ response'.data = (IF a \in DOMAIN WITHDRAWABLE
                                 THEN WITHDRAWABLE[a] ELSE 0)
            /\ response'.data = (IF a \in DOMAIN WITHDRAWABLE'
                                 THEN WITHDRAWABLE'[a] ELSE 0)]_vars

C17_Witness ==
  /\ call.msg.op = QueryWithdrawableOp
  /\ call.msg.addr = "addr0002"
  /\ response.result = OkResult
  /\ response.data = 475
  /\ "addr0003" \notin DOMAIN WITHDRAWABLE

\* C18: no subtraction underflows: in deposit fee <= A and share1 <= A - fee
\* for every A, and the debit of a withdrawal is only evaluated when
\* amount <= balance, so no call panics on a subtraction and every balance
\* and the fee pool stay non-negative after any sequence of operations.
ArithNoUnderflow(A) ==
  LET f == fee(A) IN
  \/ f.panic
  \/ /\ f.val <= A
     /\ amount1(send_amount(A, f.val)) <= send_amount(A, f.val)

C18_NoUnderflow ==
  /\ response.result # PanicSub
  /\ FEE_COLLECTED >= 0
  /\ \A a \in DOMAIN WITHDRAWABLE : WITHDRAWABLE[a] >= 0
  /\ locals.computed =>
       /\ locals.fee <= call.msg.amount
       /\ locals.amount1 <= call.msg.amount - locals.fee
  /\ call = NoCall => \A A \in 0..UintMax : ArithNoUnderflow(A)

C18_Witness ==
  /\ call.msg.op = WithdrawAllOp
  /\ response.result = OkResult
  /\ Balance(call.sender) = 0
  /\ transferred = 47

\* C19: a deposit never emits a transfer: its response carries no message,
\* and an accepted deposit changes only the fee pool and the balances of
\* addr1 and addr2.
C19_DepositEmitsNothing ==
  [][IsDeposit(call') =>
       /\ response'.messages = <<>>
       /\ response'.result = OkResult =>
            /\ CONTRACT_INFO' = CONTRACT_INFO
            /\ \A a \in (DOMAIN WITHDRAWABLE \cup DOMAIN WITHDRAWABLE')
                        \ {call'.msg.msg.addr1, call'.msg.msg.addr2} :
                 /\ a \in DOMAIN WITHDRAWABLE
                 /\ a \in DOMAIN WITHDRAWABLE'
                 /\ WITHDRAWABLE'[a] = WITHDRAWABLE[a]]_vars

C19_Witness ==
  /\ IsDeposit(call)
  /\ response.result = OkResult
  /\ response.messages = <<>>
  /\ transferred = 0
  /\ FEE_COLLECTED = 50
  /\ Balance("addr0002") = 475
  /\ Balance("addr0003") = 475

\* C20: immediately after instantiation with (token, owner) the fee pool is
\* zero, getOwner returns owner, and the withdrawable query returns zero for
\* every address.
C20_AfterInstantiate ==
  call = NoCall =>
    /\ FEE_COLLECTED = 0
    /\ get_owner(Storage) = QueryOk(instantiate_msg.owner)
    /\ \A a \in ValidAddrs :
         withdrawable(Storage, QueryMsg(QueryWithdrawableOp, a)) = QueryOk(0)

C20_Witness ==
  /\ call = NoCall
  /\ response = NoResponse
  /\ FEE_COLLECTED = 0
  /\ WITHDRAWABLE = <<>>
  /\ CONTRACT_INFO.owner = instantiate_msg.owner

\* C21: only the holder can reduce a balance: a withdrawable balance
\* decreases only in a successful withdraw or withdrawAll called by that
\* address, and the fee pool only in a successful withdrawFee called by the
\* owner; withdraw and withdrawAll leave every other balance and the fee pool
\* unchanged, and withdrawFee leaves every balance unchanged.
C21_OnlyHolderReduces ==
  [][LET op == call'.msg.op
         isWithdrawal == op \in {WithdrawOp, WithdrawAllOp}
     IN
     /\ WITHDRAWABLE' # WITHDRAWABLE =>
          \A a \in ValidAddrs :
            load_or_zero(WITHDRAWABLE', a) < load_or_zero(WITHDRAWABLE, a) =>
              /\ isWithdrawal
              /\ call'.sender = a
              /\ response'.result = OkResult
     /\ FEE_COLLECTED' < FEE_COLLECTED =>
          /\ op = WithdrawFeeOp
          /\ call'.sender = CONTRACT_INFO.owner
          /\ response'.result = OkResult
     /\ isWithdrawal =>
          /\ FEE_COLLECTED' = FEE_COLLECTED
          /\ WITHDRAWABLE' # WITHDRAWABLE =>
               \A a \in ValidAddrs \ {call'.sender} :
                 /\ (a \in DOMAIN WITHDRAWABLE') = (a \in DOMAIN WITHDRAWABLE)
                 /\ load_or_zero(WITHDRAWABLE', a) = load_or_zero(WITHDRAWABLE, a)
     /\ op = WithdrawFeeOp => WITHDRAWABLE' = WITHDRAWABLE]_vars

C21_Witness ==
  /\ call.msg.op = WithdrawOp
  /\ call.sender = "addr0002"
  /\ response.result = OkResult
  /\ Balance("addr0002") = 522 - 300
  /\ Balance("addr0003") = 523
  /\ FEE_COLLECTED = 55

\* no address was paid more than it was credited
PerAddressSolvency == \A a \in ValidAddrs : owed[a] >= 0

\* C22: solvency: in every reachable state, for every address the transfers
\* emitted to it by withdraw and withdrawAll sum to at most the shares
\* credited to it by accepted deposits, and all transfers ever emitted, fee
\* withdrawals included, sum to at most the amounts of the accepted deposits.
C22_Solvency ==
  /\ PerAddressSolvency
  /\ transferred <= deposited

====
